---- MODULE Spec2Model ----
(***************************************************************************)
(* Model of the ticket evaluator: the schema validator (schemas.py), the   *)
(* judge adapter, the row evaluator and the batch evaluator (scoring.py).  *)
(*                                                                         *)
(* A text (Python str) is a sequence of units.  A unit is a one-character  *)
(* string, a literal fragment of a message built by the program, or the    *)
(* name of a serialized JSON object (a key of JsonObjects).  Whitespace is *)
(* the unit " ".                                                           *)
(***************************************************************************)
EXTENDS Integers, Sequences, FiniteSets, TLC

\* ---------------------------------------------------------------- bounds
MaxRows == 2
MaxRetriesBound == 2
MaxItems == 2

\* ------------------------------------------------------ program constants
EXPLANATION_LIMIT == 1000

\* ------------------------------------------------------------------ texts
WS == " "
EmptyText == <<>>

SetMin(S) == CHOOSE x \in S : \A y \in S : x <= y
SetMax(S) == CHOOSE x \in S : \A y \in S : x >= y

\* str.strip(): drop leading and trailing whitespace
strip(s) ==
    LET keep == {i \in 1..Len(s) : s[i] # WS}
    IN  IF keep = {} THEN EmptyText ELSE SubSeq(s, SetMin(keep), SetMax(keep))

PrefixAs(s, n) == SubSeq(s, 1, Len(s))

\* s[:n]
Prefix(s, n) == SubSeq(s, 1, IF Len(s) < n THEN Len(s) ELSE n)

Digits == <<"0", "1", "2", "3", "4", "5", "6", "7", "8", "9">>

\* str(n) for an int n
RECURSIVE NatToText(_)
NatToText(n) == IF n < 10 THEN <<Digits[n + 1]>>
                ELSE NatToText(n \div 10) \o <<Digits[(n % 10) + 1]>>
IntToText(n) == IF n < 0 THEN <<"-">> \o NatToText(0 - n) ELSE NatToText(n)

IsDigit(c) == \E i \in 1..10 : Digits[i] = c
DigitValue(c) == (CHOOSE i \in 1..10 : Digits[i] = c) - 1
RECURSIVE DigitsToNat(_)
DigitsToNat(s) == IF s = <<>> THEN 0
                  ELSE 10 * DigitsToNat(SubSeq(s, 1, Len(s) - 1)) + DigitValue(s[Len(s)])

\* a text of n characters whose characters depend on their position
LongText(n) == [i \in 1..n |-> IF i = n THEN "z" ELSE IF i % 2 = 1 THEN "a" ELSE "b"]

\* ------------------------------------------------- values of a JSON/dict
\* t: "int", "float" (n + f/10), "str", "none" (null / None), "missing" (key absent)
JInt(n) == [t |-> "int", n |-> n, f |-> 0, s |-> EmptyText]
JFloat(n, f) == [t |-> "float", n |-> n, f |-> f, s |-> EmptyText]
JStr(s) == [t |-> "str", n |-> 0, f |-> 0, s |-> s]
JNone == [t |-> "none", n |-> 0, f |-> 0, s |-> EmptyText]
JMissing == [t |-> "missing", n |-> 0, f |-> 0, s |-> EmptyText]

MkDoc(cs, ce, fs, fe) ==
    [content_score |-> cs, content_explanation |-> ce,
     format_score |-> fs, format_explanation |-> fe]

\* ------------------------------------------------------- exception classes
ExcClasses == {"Exception", "OpenAIError", "ValueError", "JSONDecodeError",
               "RuntimeError", "TypeError"}

\* the direct base class of each modelled exception class
BaseOf(c) == IF c = "JSONDecodeError" THEN "ValueError" ELSE "Exception"

\* isinstance(exc, cls) for an exception of class c
IsInstance(c, cls) == c = cls \/ BaseOf(c) = cls \/ cls = "Exception"

NoExc == "none"

\* ------------------------------------------------------- schema validator
\* pydantic validation of an `int = Field(ge=1, le=5)` field (lax mode, the
\* mode model_validate / model_validate_json run in without strict=True)
IntField(v) ==
    LET conv == IF v.t = "int" THEN [ok |-> TRUE, n |-> v.n]
                ELSE IF v.t = "float" /\ v.f = 0 THEN [ok |-> TRUE, n |-> v.n]
                ELSE IF v.t = "str" /\ v.s # <<>> /\ \A i \in 1..Len(v.s) : IsDigit(v.s[i])
                     THEN [ok |-> TRUE, n |-> DigitsToNat(v.s)]
                ELSE [ok |-> FALSE, n |-> 0]
    IN  IF conv.ok /\ conv.n >= 1 /\ conv.n <= 5 THEN conv ELSE [ok |-> FALSE, n |-> 0]

\* pydantic validation of a `str` field
StrField(v) == IF v.t = "str" THEN [ok |-> TRUE, s |-> v.s] ELSE [ok |-> FALSE, s |-> EmptyText]

NoEvaluation ==
    [ok |-> FALSE, content_score |-> 0, content_explanation |-> EmptyText,
     format_score |-> 0, format_explanation |-> EmptyText]

\* TicketEvaluation.model_validate(doc)
TicketEvaluation(doc) ==
    LET cs == IntField(doc.content_score)
        fs == IntField(doc.format_score)
        ce == StrField(doc.content_explanation)
        fe == StrField(doc.format_explanation)
    IN  IF cs.ok /\ fs.ok /\ ce.ok /\ fe.ok
        THEN [ok |-> TRUE, content_score |-> cs.n, content_explanation |-> ce.s,
              format_score |-> fs.n, format_explanation |-> fe.s]
        ELSE NoEvaluation

\* JSON objects a text can contain, by the unit that names their serialization
ShortExpl == <<"o", "k">>
LongLen == EXPLANATION_LIMIT + 1

JsonObjects ==
    [j_4_5     |-> MkDoc(JInt(4), JStr(ShortExpl), JInt(5), JStr(ShortExpl)),
     j_1_long  |-> MkDoc(JInt(1), JStr(LongText(LongLen)), JInt(5), JStr(LongText(EXPLANATION_LIMIT))),
     j_7       |-> MkDoc(JInt(7), JStr(ShortExpl), JInt(4), JStr(ShortExpl)),
     j_0       |-> MkDoc(JInt(3), JStr(ShortExpl), JInt(0), JStr(ShortExpl)),
     j_str     |-> MkDoc(JStr(<<"4">>), JStr(ShortExpl), JInt(2), JStr(ShortExpl)),
     j_half    |-> MkDoc(JInt(2), JStr(ShortExpl), JFloat(4, 5), JStr(ShortExpl)),
     j_whole   |-> MkDoc(JFloat(3, 0), JStr(ShortExpl), JInt(3), JStr(ShortExpl)),
     j_nokey   |-> MkDoc(JInt(2), JStr(ShortExpl), JInt(3), JMissing)]

ValidationFailed == <<"validation error">>

\* TicketEvaluation.model_validate_json(text): the text must be one JSON
\* object (JSON whitespace around it is allowed) that validates
model_validate_json(text) ==
    LET t == strip(text)
    IN  IF Len(t) = 1 /\ t[1] \in DOMAIN JsonObjects
        THEN TicketEvaluation(JsonObjects[t[1]])
        ELSE NoEvaluation

NoParsed ==
    [ok |-> FALSE, exc |-> "ValueError",
     content_score |-> EmptyText, content_explanation |-> EmptyText,
     format_score |-> EmptyText, format_explanation |-> EmptyText]

\* raw: [type |-> "TicketEvaluation" | "dict" | "str" | "other", doc, text]
\*   TicketEvaluation: doc holds the instance's fields
\*   dict: doc is the mapping;  str: text is the string
\*   other: text is str(raw or "")
parse_llm_json(raw) ==
    LET parsed ==
            IF raw.type = "TicketEvaluation"
            THEN [ok |-> TRUE,
                  content_score |-> raw.doc.content_score.n,
                  content_explanation |-> raw.doc.content_explanation.s,
                  format_score |-> raw.doc.format_score.n,
                  format_explanation |-> raw.doc.format_explanation.s]
            ELSE IF raw.type = "dict" THEN TicketEvaluation(raw.doc)
            ELSE IF raw.type = "str" THEN model_validate_json(raw.text)
            ELSE model_validate_json(strip(raw.text))
    IN  IF ~parsed.ok THEN NoParsed
        ELSE [ok |-> TRUE, exc |-> NoExc,
              content_score |-> IntToText(parsed.content_score),
              content_explanation |-> Prefix(parsed.content_explanation, EXPLANATION_LIMIT),
              format_score |-> IntToText(parsed.format_score),
              format_explanation |-> Prefix(parsed.format_explanation, EXPLANATION_LIMIT)]

\* ------------------------------------------------------------ error rows
ResultFields == {"content_score", "content_explanation", "format_score",
                 "format_explanation", "evaluation_status", "evaluation_error"}

error_resultAs(reason, score_value, status) ==
    LET score == IntToText(score_value)
    IN  [content_score |-> score,
         content_explanation |-> reason,
         format_score |-> score,
         format_explanation |-> reason,
         evaluation_status |-> <<status>>,
         evaluation_error |-> reason]

error_result(reason, score_value, status) ==
    LET prefix == IF status = "infra_error" THEN "INFRA_ERROR"
                  ELSE IF status = "input_error" THEN "INPUT_ERROR"
                  ELSE "ERROR"
        msg == <<prefix, ": ">> \o reason
        score == IntToText(score_value)
    IN  [content_score |-> score,
         content_explanation |-> msg,
         format_score |-> score,
         format_explanation |-> msg,
         evaluation_status |-> <<status>>,
         evaluation_error |-> reason]

\* ------------------------------------------------- response text extraction
\* An attribute value: kind "str" (s is the string), "dict" (s is its "value"
\* entry, a string), or "other" (not a string).
AStr(s) == [kind |-> "str", s |-> s]
ADict(s) == [kind |-> "dict", s |-> s]
AOther == [kind |-> "other", s |-> EmptyText]

\* a content segment: its type and its text (or refusal) attribute
Seg(type, attr) == [type |-> type, attr |-> attr]

SegmentTextAs(content) ==
    IF content.type = "output_text"
    THEN IF content.attr.kind = "other" THEN EmptyText ELSE content.attr.s
    ELSE EmptyText

\* the text one content segment contributes
SegmentText(content) ==
    IF content.type = "output_text"
    THEN IF content.attr.kind = "other" THEN EmptyText ELSE content.attr.s
    ELSE IF content.type = "refusal"
    THEN IF content.attr.kind = "str" THEN content.attr.s ELSE EmptyText
    ELSE EmptyText

RECURSIVE CollectContents(_)
CollectContents(contents) ==
    IF contents = <<>> THEN EmptyText
    ELSE SegmentText(Head(contents)) \o CollectContents(Tail(contents))

RECURSIVE CollectItems(_)
CollectItems(output) ==
    IF output = <<>> THEN EmptyText
    ELSE CollectContents(Head(output)) \o CollectItems(Tail(output))

\* response: [none |-> BOOLEAN, output_text |-> attribute, output |-> items],
\* an item being the sequence of its content segments
extract_output_text(response) ==
    IF response.none THEN EmptyText
    ELSE IF response.output_text.kind = "str" /\ strip(response.output_text.s) # EmptyText
    THEN strip(response.output_text.s)
    ELSE strip(CollectItems(response.output))

\* ------------------------------------------------------------------- rows
\* A row maps column names to cells; a cell is a string or None.
Cell(s) == [none |-> FALSE, s |-> s]
NoneCell == [none |-> TRUE, s |-> EmptyText]

\* row.get(key) or ""
GetOrEmpty(row, key) ==
    IF key \in DOMAIN row /\ ~row[key].none THEN row[key].s ELSE EmptyText

MergeAs(row, scores) ==
    [k \in (DOMAIN row) \cup (DOMAIN scores) |->
        IF k \in DOMAIN row THEN row[k] ELSE Cell(scores[k])]

\* {**row, **scores}
Merge(row, scores) ==
    [k \in (DOMAIN row) \cup (DOMAIN scores) |->
        IF k \in DOMAIN scores THEN Cell(scores[k]) ELSE row[k]]

\* the rows a batch is drawn from
RowChoices ==
    {[ticket |-> Cell(<<"c", WS, "d">>), reply |-> Cell(<<WS, "b", WS>>),
      id |-> Cell(<<"9">>), content_score |-> Cell(<<"0">>)],
     [ticket |-> Cell(<<WS, WS>>), reply |-> Cell(<<"b">>)],
     [ticket |-> Cell(<<"a">>), reply |-> NoneCell],
     [reply |-> Cell(<<"b">>), id |-> Cell(<<"7">>)]}

RECURSIVE SeqsUpTo(_, _)
SeqsUpTo(S, n) ==
    IF n = 0 THEN {<<>>}
    ELSE LET shorter == SeqsUpTo(S, n - 1)
         IN  shorter \cup {Append(q, x) : q \in {r \in shorter : Len(r) = n - 1}, x \in S}

\* ------------------------------------------------------------- the judge
\* What one call of client.responses.create does: raise an exception of class
\* `raises` with message `msg`, or return `response`.
Envelope(output_text, output) == [none |-> FALSE, output_text |-> output_text, output |-> output]
NoResponse == [none |-> TRUE, output_text |-> AOther, output |-> <<>>]

Raises(cls, msg) == [raises |-> cls, msg |-> msg, response |-> NoResponse]
Returns(response) == [raises |-> NoExc, msg |-> EmptyText, response |-> response]

JudgeOutcomes ==
    [api_error  |-> Raises("OpenAIError", <<"Request timed out.">>),
     type_error |-> Raises("TypeError", <<"unexpected keyword argument">>),
     valid      |-> Returns(Envelope(AStr(<<WS, "j_4_5", WS>>), <<>>)),
     valid_long |-> Returns(Envelope(AStr(EmptyText),
                        << <<Seg("reasoning", AStr(<<"x">>)), Seg("output_text", AStr(<<"j_1_long">>))>> >>)),
     coerced    |-> Returns(Envelope(AOther, << <<Seg("output_text", ADict(<<"j_str">>))>> >>)),
     empty      |-> Returns(Envelope(AStr(<<WS>>), << <<Seg("output_text", AStr(<<WS>>))>>, <<>> >>)),
     none       |-> Returns(NoResponse),
     refusal    |-> Returns(Envelope(AStr(EmptyText),
                        << <<Seg("refusal", AStr(<<"I", WS, "cannot">>))>> >>)),
     bad_range  |-> Returns(Envelope(AStr(<<"j_7">>), <<>>)),
     no_key     |-> Returns(Envelope(AStr(<<"j_nokey">>), <<>>)),
     not_json   |-> Returns(Envelope(AStr(EmptyText),
                        << <<Seg("output_text", AStr(<<"j_4_5">>))>>,
                           <<Seg("output_text", AStr(<<"j_4_5">>))>> >>))]

\* ---------------------------------------------------------- judge adapter
NoError == [cls |-> NoExc, msg |-> <<"None">>]
Exc(cls, msg) == [cls |-> cls, msg |-> msg]

NoFields ==
    [content_score |-> EmptyText, content_explanation |-> EmptyText,
     format_score |-> EmptyText, format_explanation |-> EmptyText,
     evaluation_status |-> EmptyText, evaluation_error |-> EmptyText]

\* the body of the try block of one attempt, given what the judge call did:
\* either the fields returned or the exception raised
TryBody(outcome) ==
    IF outcome.raises # NoExc
    THEN [exc |-> Exc(outcome.raises, outcome.msg), fields |-> NoFields]
    ELSE LET raw_output == extract_output_text(outcome.response)
         IN  IF raw_output = EmptyText
             THEN [exc |-> Exc("RuntimeError", <<"LLM response did not contain text output.">>),
                   fields |-> NoFields]
             ELSE LET parsed == parse_llm_json([type |-> "str", doc |-> JsonObjects.j_4_5,
                                                text |-> raw_output])
                  IN  IF ~parsed.ok
                      THEN [exc |-> Exc(parsed.exc,
                                        <<"LLM output did not match expected schema: ">>
                                            \o ValidationFailed),
                            fields |-> NoFields]
                      ELSE [exc |-> NoError,
                            fields |-> [content_score |-> parsed.content_score,
                                        content_explanation |-> parsed.content_explanation,
                                        format_score |-> parsed.format_score,
                                        format_explanation |-> parsed.format_explanation,
                                        evaluation_status |-> <<"ok">>,
                                        evaluation_error |-> EmptyText]]

CaughtAs(cls, error_type) == IsInstance(cls, "Exception")

\* except (openai_error_type, ValueError, json.JSONDecodeError)
Caught(cls, error_type) ==
    \/ IsInstance(cls, error_type)
    \/ IsInstance(cls, "ValueError")
    \/ IsInstance(cls, "JSONDecodeError")

\* 2 ** n
RECURSIVE Pow2(_)
Pow2(n) == IF n <= 0 THEN 1 ELSE 2 * Pow2(n - 1)

\* the RuntimeError raised once the loop is over
Exhausted(retries, last) ==
    Exc("RuntimeError",
        <<"LLM evaluation failed after ">> \o IntToText(retries) \o <<" attempts: ">> \o last.msg)

NoResponsesApi ==
    Exc("RuntimeError", <<"Tu version del SDK de OpenAI no soporta Responses API.">>)

\* ------------------------------------------------------------------ state
VARIABLES
    rows,               \* the input rows
    client,             \* "none" (None), "client", or "bare" (no `responses` attribute)
    openai_error_type,  \* the exception class passed as openai_error_type
    max_retries,
    error_score,
    pc,                 \* "loop", "attempt", "sleep", "done", "raised"; "parse", "parsed"
    idx,                \* 1-based position of the row the for loop is at
    attempt,
    last_error,
    evaluated,
    status_counts,
    raised,             \* the exception that escaped evaluate_rows, if any
    calls,              \* judge invocations made for the current row
    waits,              \* time.sleep arguments for the current row, in order
    last_outcome,       \* what the latest judge invocation of the current row did
    total_calls,        \* judge invocations made since evaluate_rows was entered
    parse_raw,          \* the argument of a direct call of parse_llm_json
    parse_out,          \* its result
    response,           \* the argument of a direct call of extract_output_text
    extracted,          \* its result
    run,                \* the arguments and environment of evaluate_tickets
    output_file         \* the file at the output path

vars == <<rows, client, openai_error_type, max_retries, error_score, pc, idx, attempt,
          last_error, evaluated, status_counts, raised, calls, waits, last_outcome,
          total_calls, parse_raw, parse_out, response, extracted, run, output_file>>

aside == <<parse_raw, parse_out, response, extracted, run, output_file>>
inputs == <<rows, client, openai_error_type, max_retries, error_score, aside>>

Clients == {"none", "client", "bare"}
ErrorTypes == {"OpenAIError", "Exception"}
ErrorScores == {3, 5}
RetryChoices == {0 - 1, 0, 1, MaxRetriesBound}
\* the installations drawn: the SDK's error type with a chosen --error-score,
\* the import fallback with the default one
Deployments ==
    {d \in [error_type : ErrorTypes, score : ErrorScores] :
        (d.error_type = "Exception") = (d.score = 3)}

NoRaw == [type |-> "other", doc |-> JsonObjects.j_4_5, text |-> EmptyText]

\* extract_output_text is not called directly
NoExtraction == response = NoResponse /\ extracted = EmptyText

\* evaluate_rows is called directly, not by evaluate_tickets
NoFile == [exists |-> FALSE, header |-> <<>>, data |-> <<>>]
NoRun == run = [used |-> FALSE] /\ output_file = NoFile

Init ==
    /\ rows \in SeqsUpTo(RowChoices, MaxRows)
    /\ client \in Clients
    /\ \E d \in Deployments : openai_error_type = d.error_type /\ error_score = d.score
    /\ max_retries \in RetryChoices
    /\ pc = "loop"
    /\ idx = 1
    /\ attempt = 0
    /\ last_error = NoError
    /\ evaluated = <<>>
    /\ status_counts = <<>>
    /\ raised = NoError
    /\ calls = 0
    /\ waits = <<>>
    /\ last_outcome = "none"
    /\ total_calls = 0
    /\ parse_raw = NoRaw
    /\ parse_out = NoParsed
    /\ NoExtraction
    /\ NoRun

FinalizeAs(scores) ==
    LET status == scores.evaluation_status
    IN  /\ status_counts' =
              [s \in (DOMAIN status_counts) \cup {status} |->
                  IF s = status
                  THEN (IF s \in DOMAIN status_counts THEN status_counts[s] ELSE 0) + 1
                  ELSE status_counts[s]]
        /\ evaluated' = <<Merge(rows[idx], scores)>> \o evaluated
        /\ idx' = idx + 1
        /\ pc' = "loop"
        /\ UNCHANGED raised

FinalizeTallyAs(scores) ==
    LET status == scores.evaluation_status
    IN  /\ status_counts' =
              [s \in (DOMAIN status_counts) \cup {status} |->
                  IF s = status THEN 1 ELSE status_counts[s]]
        /\ evaluated' = Append(evaluated, Merge(rows[idx], scores))
        /\ idx' = idx + 1
        /\ pc' = "loop"
        /\ UNCHANGED raised

\* the bookkeeping of evaluate_rows for one evaluated row
Finalize(scores) ==
    LET status == scores.evaluation_status
    IN  /\ status_counts' =
              [s \in (DOMAIN status_counts) \cup {status} |->
                  IF s = status
                  THEN (IF s \in DOMAIN status_counts THEN status_counts[s] ELSE 0) + 1
                  ELSE status_counts[s]]
        /\ evaluated' = Append(evaluated, Merge(rows[idx], scores))
        /\ idx' = idx + 1
        /\ pc' = "loop"
        /\ UNCHANGED raised

RowCatchesAs(cls) == IsInstance(cls, "RuntimeError")

\* `except Exception` of evaluate_row
RowCatches(cls) == IsInstance(cls, "Exception")

\* evaluate_with_llm raised exc inside the try block of evaluate_row
RowFailed(exc) ==
    IF RowCatches(exc.cls)
    THEN Finalize(error_result(<<"LLM evaluation failed: ">> \o exc.msg, error_score,
                               "infra_error"))
    ELSE /\ raised' = exc
         /\ pc' = "raised"
         /\ UNCHANGED <<idx, evaluated, status_counts>>

MissingText == <<"Missing ticket or reply text; unable to evaluate.">>
NotConfigured == <<"OpenAI client not configured (set OPENAI_API_KEY or remove skip_api).">>

PrecheckClientFirstAs(row, cl) ==
    LET ticket == strip(GetOrEmpty(row, "ticket"))
        reply == strip(GetOrEmpty(row, "reply"))
    IN  IF cl = "none" THEN "infra_error"
        ELSE IF ticket = EmptyText \/ reply = EmptyText THEN "input_error"
        ELSE "go"

PrecheckMergedAs(row, cl) ==
    LET ticket == strip(GetOrEmpty(row, "ticket"))
        reply == strip(GetOrEmpty(row, "reply"))
    IN  IF ticket = EmptyText \/ reply = EmptyText \/ cl = "none" THEN "input_error"
        ELSE "go"

\* the two guards of evaluate_row: the status it returns at once, or "go"
Precheck(row, cl) ==
    LET ticket == strip(GetOrEmpty(row, "ticket"))
        reply == strip(GetOrEmpty(row, "reply"))
    IN  IF ticket = EmptyText \/ reply = EmptyText THEN "input_error"
        ELSE IF cl = "none" THEN "infra_error"
        ELSE "go"

CanStartRowAs == pc \in {"loop", "sleep"} /\ idx <= Len(rows)

CanStartRowShortAs == pc = "loop" /\ idx < Len(rows)

\* `for row in rows`: the loop body is entered for the next row, once the
\* body has returned for the row before
CanStartRow == pc = "loop" /\ idx <= Len(rows)

LoopEmptyAs(retries) == retries < 0

\* range(1, max_retries + 1) is empty
LoopEmpty(retries) == retries < 1

FirstAttemptAs == IF attempt > 0 THEN attempt ELSE 1

\* the first value of `attempt` in range(1, max_retries + 1)
FirstAttempt == 1

\* evaluate_rows takes the next row; evaluate_row up to the first judge call
StartRow ==
    /\ CanStartRow
    /\ calls' = 0
    /\ waits' = <<>>
    /\ last_outcome' = "none"
    /\ last_error' = NoError
    /\ LET guard == Precheck(rows[idx], client)
       IN  IF guard = "input_error"
           THEN /\ Finalize(error_result(MissingText, error_score, "input_error"))
                /\ attempt' = 0
           ELSE IF guard = "infra_error"
           THEN /\ Finalize(error_result(NotConfigured, error_score, "infra_error"))
                /\ attempt' = 0
           ELSE IF client # "client"
           THEN /\ RowFailed(NoResponsesApi)
                /\ attempt' = 0
           ELSE IF LoopEmpty(max_retries)
           THEN /\ RowFailed(Exhausted(max_retries, NoError))
                /\ attempt' = 0
           ELSE /\ attempt' = FirstAttempt
                /\ pc' = "attempt"
                /\ UNCHANGED <<idx, evaluated, status_counts, raised>>
    /\ UNCHANGED <<inputs, total_calls>>

\* one iteration of the retry loop: the judge call and what follows it
Attempt ==
    /\ pc = "attempt"
    /\ \E o \in DOMAIN JudgeOutcomes :
        LET r == TryBody(JudgeOutcomes[o])
        IN  /\ last_outcome' = o
            /\ calls' = calls + 1
            /\ total_calls' = total_calls + 1
            /\ IF r.exc.cls = NoExc
               THEN /\ Finalize(r.fields)
                    /\ UNCHANGED <<last_error, waits, attempt>>
               ELSE IF ~Caught(r.exc.cls, openai_error_type)
               THEN /\ RowFailed(r.exc)
                    /\ UNCHANGED <<last_error, waits, attempt>>
               ELSE /\ last_error' = r.exc
                    /\ IF attempt = max_retries
                       THEN /\ RowFailed(Exhausted(max_retries, r.exc))
                            /\ UNCHANGED <<waits, attempt>>
                       ELSE /\ waits' = Append(waits, Pow2(attempt - 1))
                            /\ pc' = "sleep"
                            /\ UNCHANGED <<idx, evaluated, status_counts, raised, attempt>>
    /\ UNCHANGED inputs

\* time.sleep(wait) returns and the loop moves to the next attempt
Sleep ==
    /\ pc = "sleep"
    /\ attempt' = attempt + 1
    /\ pc' = "attempt"
    /\ UNCHANGED <<inputs, idx, last_error, evaluated, status_counts, raised, calls, waits,
                   last_outcome, total_calls>>

\* the for loop is over: evaluate_rows returns (evaluated, status_counts)
Return ==
    /\ pc = "loop"
    /\ idx > Len(rows)
    /\ pc' = "done"
    /\ UNCHANGED <<inputs, idx, attempt, last_error, evaluated, status_counts, raised, calls,
                   waits, last_outcome, total_calls>>

Next == StartRow \/ Attempt \/ Sleep \/ Return

Spec == Init /\ [][Next]_vars

\* the interpreter keeps running the program; a judge call and a sleep return
FairSpec == Spec /\ WF_vars(Next)

\* ------------------------------------------- parse_llm_json called directly
ScoreValues ==
    {JInt(n) : n \in (0 - 1)..7}
        \cup {JFloat(4, 0), JFloat(4, 5), JStr(<<"4">>), JStr(<<"9">>), JStr(<<"x">>),
              JStr(EmptyText), JNone, JMissing}
ExplanationValues == {JStr(ShortExpl), JStr(LongText(LongLen)), JInt(7), JMissing}

DictChoices ==
    [content_score : ScoreValues, content_explanation : ExplanationValues,
     format_score : ScoreValues, format_explanation : ExplanationValues]

InstanceChoices ==
    [content_score : {JInt(1), JInt(5)}, content_explanation : {JStr(ShortExpl)},
     format_score : {JInt(1), JInt(3), JInt(5)},
     format_explanation : {JStr(ShortExpl), JStr(LongText(LongLen))}]

TextChoices ==
    {<<u>> : u \in DOMAIN JsonObjects}
        \cup {EmptyText, <<"x">>, <<WS, "j_4_5", WS>>, <<"j_4_5", "j_4_5">>}

RawChoices ==
    {[type |-> "dict", doc |-> d, text |-> EmptyText] : d \in DictChoices}
        \cup {[type |-> "TicketEvaluation", doc |-> d, text |-> EmptyText] : d \in InstanceChoices}
        \cup {[type |-> "str", doc |-> JsonObjects.j_4_5, text |-> t] : t \in TextChoices}
        \cup {[type |-> "other", doc |-> JsonObjects.j_4_5, text |-> t] :
                  t \in {EmptyText, <<"5">>, <<WS, "j_4_5">>}}

InitParse ==
    /\ rows = <<>>
    /\ client = "none"
    /\ openai_error_type = "OpenAIError"
    /\ max_retries = 1
    /\ error_score = 3
    /\ pc = "parse"
    /\ idx = 1
    /\ attempt = 0
    /\ last_error = NoError
    /\ evaluated = <<>>
    /\ status_counts = <<>>
    /\ raised = NoError
    /\ calls = 0
    /\ waits = <<>>
    /\ last_outcome = "none"
    /\ total_calls = 0
    /\ parse_raw \in RawChoices
    /\ parse_out = NoParsed
    /\ NoExtraction
    /\ NoRun

ParseCall ==
    /\ pc = "parse"
    /\ parse_out' = parse_llm_json(parse_raw)
    /\ pc' = "parsed"
    /\ UNCHANGED <<rows, client, openai_error_type, max_retries, error_score, idx, attempt,
                   last_error, evaluated, status_counts, raised, calls, waits, last_outcome,
                   total_calls, parse_raw, response, extracted, run, output_file>>

NextParse == ParseCall

SpecParse == InitParse /\ [][NextParse]_vars

\* --------------------------------------- extract_output_text called directly
OutputTextChoices == {AStr(<<WS, "x", WS>>), AStr(<<WS>>), AStr(EmptyText), AOther}

\* an output item is the sequence of its content segments
ItemChoices ==
    {<<>>,
     <<Seg("output_text", AStr(<<"a", WS>>))>>,
     <<Seg("output_text", ADict(<<"b">>))>>,
     <<Seg("output_text", AOther)>>,
     <<Seg("output_text", AStr(<<WS>>))>>,
     <<Seg("refusal", AStr(<<WS, "r">>))>>,
     <<Seg("refusal", ADict(<<"d">>))>>,
     <<Seg("reasoning", AStr(<<"z">>))>>,
     <<Seg("output_text", AStr(<<"a">>)), Seg("refusal", AStr(<<"r">>))>>}

ResponseChoices ==
    {NoResponse}
        \cup {Envelope(t, o) : t \in OutputTextChoices, o \in SeqsUpTo(ItemChoices, MaxItems)}

InitExtract ==
    /\ rows = <<>>
    /\ client = "none"
    /\ openai_error_type = "OpenAIError"
    /\ max_retries = 1
    /\ error_score = 3
    /\ pc = "extract"
    /\ idx = 1
    /\ attempt = 0
    /\ last_error = NoError
    /\ evaluated = <<>>
    /\ status_counts = <<>>
    /\ raised = NoError
    /\ calls = 0
    /\ waits = <<>>
    /\ last_outcome = "none"
    /\ total_calls = 0
    /\ parse_raw = NoRaw
    /\ parse_out = NoParsed
    /\ response \in ResponseChoices
    /\ extracted = EmptyText
    /\ NoRun

ExtractCall ==
    /\ pc = "extract"
    /\ extracted' = extract_output_text(response)
    /\ pc' = "extracted"
    /\ UNCHANGED <<rows, client, openai_error_type, max_retries, error_score, idx, attempt,
                   last_error, evaluated, status_counts, raised, calls, waits, last_outcome,
                   total_calls, parse_raw, parse_out, response, run, output_file>>

NextExtract == ExtractCall

SpecExtract == InitExtract /\ [][NextExtract]_vars

\* ------------------------------------------------------- evaluate_tickets
BASE_OUTPUT_FIELDS ==
    <<"ticket", "reply", "content_score", "content_explanation", "format_score",
      "format_explanation">>
METADATA_OUTPUT_FIELDS == <<"evaluation_status", "evaluation_error">>
Required == {"ticket", "reply"}

\* An input file: whether it exists, the column names of its header (already
\* stripped) and its data lines; csv.DictReader gives every row the header's
\* columns, None where the line is short.
DictRow(header, line) ==
    [k \in header |-> IF k \in DOMAIN line THEN line[k] ELSE NoneCell]

read_rows(file) ==
    IF ~file.exists
    THEN [exc |-> Exc("FileNotFoundError", <<"Input file does not exist: ">>), rows |-> <<>>]
    ELSE LET read == [i \in 1..Len(file.data) |-> DictRow(file.header, file.data[i])]
         IN  IF read # <<>>
             THEN IF Required \ file.header # {}
                  THEN [exc |-> Exc("ValueError", <<"Missing required columns: ">>),
                        rows |-> <<>>]
                  ELSE [exc |-> NoError, rows |-> read]
             ELSE [exc |-> Exc("ValueError", <<"Input CSV has no rows">>), rows |-> <<>>]

FieldNamesAs(include_metadata) == BASE_OUTPUT_FIELDS \o METADATA_OUTPUT_FIELDS

FieldNames(include_metadata) ==
    IF include_metadata THEN BASE_OUTPUT_FIELDS \o METADATA_OUTPUT_FIELDS
    ELSE BASE_OUTPUT_FIELDS

\* csv.DictWriter(fieldnames, extrasaction="ignore"): one text per column, ""
\* for None and for a column the row lacks
write_rows(output_rows, include_metadata) ==
    LET fieldnames == FieldNames(include_metadata)
        names == {fieldnames[j] : j \in 1..Len(fieldnames)}
    IN  [exists |-> TRUE,
         header |-> fieldnames,
         data |-> [i \in 1..Len(output_rows) |->
                      [k \in names |-> GetOrEmpty(output_rows[i], k)]]]

HeaderChoices == {{"ticket", "reply", "id"}, {"reply", "id"}, {}}
LineChoices ==
    {[ticket |-> Cell(<<"c", WS, "d">>), reply |-> Cell(<<WS, "b", WS>>), id |-> Cell(<<"9">>)],
     [ticket |-> Cell(<<WS, WS>>), reply |-> Cell(<<"b">>), id |-> Cell(<<"8">>)],
     [ticket |-> Cell(<<"a">>)]}
FileChoices ==
    {[exists |-> FALSE, header |-> {}, data |-> <<>>]}
        \cup {[exists |-> TRUE, header |-> h, data |-> d] :
                 h \in HeaderChoices, d \in SeqsUpTo(LineChoices, MaxRows)}
SdkChoices == {"none", "old", "current"}
RunChoices ==
    [used : {TRUE}, file : FileChoices, max_rows : {0, 1}, skip_api : BOOLEAN,
     api_key : BOOLEAN, sdk : SdkChoices, include_metadata_columns : BOOLEAN]

InitTickets ==
    /\ run \in RunChoices
    /\ output_file = NoFile
    /\ rows = <<>>
    /\ client = "none"
    /\ openai_error_type = "OpenAIError"
    /\ max_retries = MaxRetriesBound
    /\ error_score = 3
    /\ pc = "prepare"
    /\ idx = 1
    /\ attempt = 0
    /\ last_error = NoError
    /\ evaluated = <<>>
    /\ status_counts = <<>>
    /\ raised = NoError
    /\ calls = 0
    /\ waits = <<>>
    /\ last_outcome = "none"
    /\ total_calls = 0
    /\ parse_raw = NoRaw
    /\ parse_out = NoParsed
    /\ NoExtraction

SdkMissing == Exc("RuntimeError", <<"OpenAI SDK is not available in this environment.">>)
KeyMissing == Exc("RuntimeError", <<"OPENAI_API_KEY no esta definida.">>)

\* why evaluate_tickets cannot build the client, NoError if it can
ClientError(r) ==
    IF r.skip_api THEN NoError
    ELSE IF r.sdk = "none" THEN SdkMissing
    ELSE IF ~r.api_key THEN KeyMissing
    ELSE NoError

\* evaluate_tickets up to the call of evaluate_rows
Prepare ==
    /\ pc = "prepare"
    /\ LET read == read_rows(run.file)
           exc == IF read.exc.cls # NoExc THEN read.exc ELSE ClientError(run)
       IN  IF exc.cls # NoExc
           THEN /\ raised' = exc
                /\ pc' = "aborted"
                /\ UNCHANGED <<rows, client, openai_error_type>>
           ELSE /\ rows' = IF run.max_rows > 0 THEN Prefix(read.rows, run.max_rows)
                           ELSE read.rows
                /\ client' = IF run.skip_api THEN "none"
                             ELSE IF run.sdk = "old" THEN "bare" ELSE "client"
                /\ openai_error_type' = IF run.sdk = "none" THEN "Exception" ELSE "OpenAIError"
                /\ pc' = "loop"
                /\ UNCHANGED raised
    /\ UNCHANGED <<max_retries, error_score, idx, attempt, last_error, evaluated,
                   status_counts, calls, waits, last_outcome, total_calls, aside>>

\* evaluate_rows has returned: the output file is written
WriteRows ==
    /\ pc = "done"
    /\ run.used
    /\ output_file' = write_rows(evaluated, run.include_metadata_columns)
    /\ pc' = "written"
    /\ UNCHANGED <<rows, client, openai_error_type, max_retries, error_score, idx, attempt,
                   last_error, evaluated, status_counts, raised, calls, waits, last_outcome,
                   total_calls, parse_raw, parse_out, response, extracted, run>>

NextTickets == Prepare \/ StartRow \/ Attempt \/ Sleep \/ Return \/ WriteRows

SpecTickets == InitTickets /\ [][NextTickets]_vars

\* ================================================================ properties
\* ticket or reply of the row is missing, None, empty or whitespace only
BlankColumn(row, k) ==
    \/ k \notin DOMAIN row
    \/ row[k].none
    \/ \A i \in 1..Len(row[k].s) : row[k].s[i] = " "
Unusable(row) == BlankColumn(row, "ticket") \/ BlankColumn(row, "reply")

StatusOf(i) == evaluated[i].evaluation_status.s
Statuses == {<<"ok">>, <<"input_error">>, <<"infra_error">>}

\* the latest row is finalized and calls, waits, last_outcome describe it
RowDone == pc \in {"loop", "done"} /\ Len(evaluated) >= 1
Latest == evaluated[Len(evaluated)]
LatestInput == rows[Len(evaluated)]

\* what the judge does on a call, in the terms of the design: a transient
\* failure (judge call error, empty output, JSON parse error, schema error)
EmptyOutputs == {"empty", "none"}
TransientFailures == {"api_error", "bad_range", "no_key", "not_json"} \cup EmptyOutputs
\* a response that conforms to the schema, and the JSON object it carries
Conforming == [valid |-> JsonObjects.j_4_5, valid_long |-> JsonObjects.j_1_long]

\* C1: every input row produces exactly one output row, in input order: output
\* row i carries the columns of input row i and the evaluation fields of row i.
C1_OneOutputRowPerInputRow ==
    /\ Len(evaluated) <= Len(rows)
    /\ pc \in {"loop", "done"} => Len(evaluated) = idx - 1
    /\ pc = "done" => Len(evaluated) = Len(rows)
    /\ \A i \in 1..Len(evaluated) :
        /\ DOMAIN evaluated[i] = (DOMAIN rows[i]) \cup ResultFields
        /\ \A k \in (DOMAIN rows[i]) \ ResultFields : evaluated[i][k] = rows[i][k]
        /\ StatusOf(i) \in Statuses
        /\ (StatusOf(i) = <<"input_error">>) <=> Unusable(rows[i])

C1_Witness ==
    /\ pc = "done"
    /\ Len(rows) = 2
    /\ rows[1] # rows[2]
    /\ StatusOf(1) = <<"infra_error">>
    /\ StatusOf(2) = <<"input_error">>
    /\ calls = 0

\* C2: evaluate_row never raises: whatever the row, the client and the judge
\* do, no exception escapes and every finalized row carries a status.
C2_RowNeverRaises ==
    /\ pc # "raised"
    /\ raised = NoError
    /\ \A i \in 1..Len(evaluated) :
        "evaluation_status" \in DOMAIN evaluated[i] /\ StatusOf(i) \in Statuses
    /\ (RowDone /\ calls >= 1 /\ Latest.evaluation_status.s # <<"ok">>)
           => Latest.evaluation_status.s = <<"infra_error">>

C2_Witness ==
    /\ RowDone
    /\ last_outcome = "type_error"
    /\ openai_error_type = "OpenAIError"
    /\ Latest.evaluation_status.s = <<"infra_error">>

\* C3: a row whose ticket or reply is missing, empty or whitespace-only gets
\* input_error whether or not a client is configured, with no judge call.
C3_UnusableRowIsInputError ==
    /\ \A i \in 1..Len(evaluated) : Unusable(rows[i]) => StatusOf(i) = <<"input_error">>
    /\ (RowDone /\ Unusable(LatestInput)) => (calls = 0 /\ waits = <<>>)
    /\ pc \in {"attempt", "sleep"} => ~Unusable(rows[idx])

C3_Witness ==
    /\ RowDone
    /\ client = "client"
    /\ max_retries >= 1
    /\ "ticket" \in DOMAIN LatestInput
    /\ LatestInput.ticket.s = <<" ", " ">>
    /\ Latest.evaluation_status.s = <<"input_error">>
    /\ calls = 0

\* C4 as stated: with no client configured every row ends as infra_error, at
\* once, with no judge call and no wait.
C4_Original ==
    client = "none" =>
        /\ \A i \in 1..Len(evaluated) : StatusOf(i) = <<"infra_error">>
        /\ calls = 0
        /\ waits = <<>>

\* C4 amended: with no client configured every row with non-empty ticket and
\* reply ends as infra_error and every other row as input_error, at once, with
\* no judge call and no wait.
C4_NoClient ==
    client = "none" =>
        /\ \A i \in 1..Len(evaluated) :
               StatusOf(i) = IF Unusable(rows[i]) THEN <<"input_error">> ELSE <<"infra_error">>
        /\ pc \in {"loop", "done"}
        /\ calls = 0
        /\ waits = <<>>

C4_Witness ==
    /\ client = "none"
    /\ pc = "done"
    /\ Len(rows) = 2
    /\ ~Unusable(rows[1])
    /\ StatusOf(1) = <<"infra_error">>
    /\ StatusOf(2) = <<"input_error">>

\* C5: after k < max_retries transient failures and then a valid response the
\* result is ok after exactly k+1 judge calls; when every call fails
\* transiently the adapter gives up after exactly max_retries calls.
C5_RetryCounts ==
    (RowDone /\ calls >= 1) =>
        /\ last_outcome \in DOMAIN Conforming =>
               (Latest.evaluation_status.s = <<"ok">> /\ calls <= max_retries
                    /\ Len(waits) = calls - 1)
        /\ last_outcome \in TransientFailures =>
               (Latest.evaluation_status.s = <<"infra_error">> /\ calls = max_retries)

\* C6: an empty extracted text with attempts remaining is followed by a wait
\* and a further judge call, never by the end of the row.
C6_EmptyOutputRetried ==
    (pc \in {"loop", "done", "raised"} /\ calls >= 1 /\ last_outcome \in EmptyOutputs)
        => calls >= max_retries

\* C7: the waits of a row are 1, 2, 4, ... in that order, one after each
\* transient failure that leaves attempts, none after the final attempt.
C7_BackoffSchedule ==
    /\ \A i \in 1..Len(waits) : waits[i] = 2 ^ (i - 1)
    /\ pc = "sleep" => (Len(waits) = calls /\ calls = attempt /\ attempt < max_retries)
    /\ pc = "attempt" => (Len(waits) = calls /\ calls = attempt - 1)
    /\ (RowDone /\ calls >= 1) => Len(waits) = calls - 1
    /\ (RowDone /\ calls >= 1 /\ calls < max_retries) => last_outcome \notin TransientFailures

\* C8: an input_error or infra_error row has both scores equal to the string
\* form of error_score, both explanations "<PREFIX>: <reason>" and
\* evaluation_error equal to the reason.
ErrorPrefix(status) == IF status = <<"input_error">> THEN "INPUT_ERROR" ELSE "INFRA_ERROR"
C8_ErrorRowFields ==
    \A i \in 1..Len(evaluated) :
        StatusOf(i) \in {<<"input_error">>, <<"infra_error">>} =>
            LET e == evaluated[i]
                text == <<ErrorPrefix(StatusOf(i)), ": ">> \o e.evaluation_error.s
            IN  /\ e.content_score.s = e.format_score.s
                /\ Len(e.content_score.s) = 1
                /\ e.content_score.s[1] = (IF error_score = 3 THEN "3" ELSE "5")
                /\ e.content_explanation.s = text
                /\ e.format_explanation.s = text
                /\ e.evaluation_error.s # <<>>

C8_Witness ==
    /\ pc = "done"
    /\ Len(rows) = 2
    /\ StatusOf(1) = <<"input_error">>
    /\ StatusOf(2) = <<"infra_error">>
    /\ calls = 2
    /\ error_score = 5
    /\ evaluated[2].content_explanation.s[1] = "INFRA_ERROR"

\* C9: a usable row whose judge response conforms to the schema ends as ok
\* with an empty evaluation_error, the judge's scores as the strings "1".."5"
\* and each explanation cut to its first 1000 characters.
ScoreText(n) == <<<<"1", "2", "3", "4", "5">>[n]>>
FirstChars(full, out) ==
    /\ Len(out) = (IF Len(full) > 1000 THEN 1000 ELSE Len(full))
    /\ \A i \in 1..Len(out) : out[i] = full[i]
C9_ConformingResponseIsOk ==
    (RowDone /\ calls >= 1 /\ last_outcome \in DOMAIN Conforming) =>
        LET e == Latest
            d == Conforming[last_outcome]
        IN  /\ ~Unusable(LatestInput)
            /\ e.evaluation_status.s = <<"ok">>
            /\ e.evaluation_error.s = <<>>
            /\ e.content_score.s = ScoreText(d.content_score.n)
            /\ e.format_score.s = ScoreText(d.format_score.n)
            /\ FirstChars(d.content_explanation.s, e.content_explanation.s)
            /\ FirstChars(d.format_explanation.s, e.format_explanation.s)

C9_Witness ==
    /\ RowDone
    /\ last_outcome = "valid_long"
    /\ calls = 2
    /\ Len(Latest.content_explanation.s) = 1000
    /\ Latest.content_score.s = <<"1">>
    /\ Latest.format_score.s = <<"5">>

\* C10: parse_llm_json fails whenever a score is outside [1,5] or not an
\* integer or any of the four keys is missing, and accepts the boundary scores
\* 1 and 5, returning them as "1" and "5".
IntegerScore(v) == (v.t = "int" \/ (v.t = "float" /\ v.f = 0)) /\ v.n >= 1 /\ v.n <= 5
C10_SchemaValidation ==
    (pc = "parsed" /\ parse_raw.type \in {"dict", "TicketEvaluation"}) =>
        LET d == parse_raw.doc
        IN  /\ (\/ ~IntegerScore(d.content_score)
                \/ ~IntegerScore(d.format_score)
                \/ \E k \in DOMAIN d : d[k].t = "missing")
                   => ~parse_out.ok
            /\ (/\ d.content_score \in {JInt(1), JInt(5)}
                /\ d.format_score \in {JInt(1), JInt(5)}
                /\ d.content_explanation.t = "str"
                /\ d.format_explanation.t = "str")
                   => (/\ parse_out.ok
                       /\ parse_out.content_score = ScoreText(d.content_score.n)
                       /\ parse_out.format_score = ScoreText(d.format_score.n))

\* C12: rows are processed one after the other: a judge call or a wait belongs
\* to the row the loop is at, all earlier rows being appended and this one not
\* yet; a row is started only when no row is in progress; each result is
\* appended at the end of the output as the loop leaves its row.
C12_StrictlySequential ==
    [][/\ idx' >= idx
       /\ (total_calls' # total_calls \/ Len(waits') > Len(waits)) =>
              (/\ pc = "attempt"
               /\ idx <= Len(rows)
               /\ Len(evaluated) = idx - 1
               /\ total_calls' = total_calls + 1
               /\ calls' = calls + 1)
       /\ (calls' < calls \/ Len(waits') < Len(waits) \/ (pc # "attempt" /\ pc' = "attempt"
              /\ attempt' <= attempt)) =>
              (pc = "loop" /\ Len(evaluated) = idx - 1)
       /\ pc = "sleep" => (pc' = "attempt" /\ idx' = idx /\ evaluated' = evaluated)
       /\ Len(evaluated') # Len(evaluated) =>
              (/\ Len(evaluated') = idx
               /\ SubSeq(evaluated', 1, Len(evaluated)) = evaluated
               /\ idx' = idx + 1
               /\ pc' = "loop")
       /\ idx' # idx => Len(evaluated') = Len(evaluated) + 1]_vars

C12_Witness ==
    /\ pc = "sleep"
    /\ idx = 2
    /\ Len(evaluated) = 1
    /\ calls = 1
    /\ total_calls = 3

\* C13: the input rows are never changed; in an output row every input column
\* that is not an evaluation field keeps its value and every evaluation field
\* holds the evaluation's value, also where the input row had such a column.
ScoreTexts == {<<"1">>, <<"2">>, <<"3">>, <<"4">>, <<"5">>}
C13_MergeOnCopy ==
    [][/\ rows' = rows
       /\ \A i \in 1..Len(evaluated') :
           /\ \A k \in (DOMAIN rows[i]) \ ResultFields : evaluated'[i][k] = rows[i][k]
           /\ \A k \in ResultFields : k \in DOMAIN evaluated'[i] /\ ~evaluated'[i][k].none
           /\ evaluated'[i].content_score.s \in ScoreTexts
           /\ evaluated'[i].format_score.s \in ScoreTexts
           /\ evaluated'[i].evaluation_status.s \in Statuses
           /\ (i = Len(evaluated') /\ Len(evaluated') > Len(evaluated)
                   /\ last_outcome' \in DOMAIN Conforming /\ calls' >= 1
                   /\ evaluated'[i].evaluation_status.s = <<"ok">>) =>
                  evaluated'[i].content_score.s =
                      ScoreText(Conforming[last_outcome'].content_score.n)
           /\ evaluated'[i].evaluation_status.s # <<"ok">> =>
                  evaluated'[i].content_score.s = ScoreText(error_score)]_vars

C13_Witness ==
    /\ pc = "done"
    /\ Len(rows) = 1
    /\ "content_score" \in DOMAIN rows[1]
    /\ rows[1].content_score.s = <<"0">>
    /\ evaluated[1].content_score.s = <<"4">>
    /\ evaluated[1].id = rows[1].id
    /\ evaluated[1].ticket.s = <<"c", " ", "d">>

\* C14: the tally has one entry per status observed, equal to the number of
\* output rows with that status, and its entries sum to the number of rows.
RECURSIVE TallySum(_, _)
TallySum(f, keys) ==
    IF keys = {} THEN 0
    ELSE LET k == CHOOSE x \in keys : TRUE
         IN  f[k] + TallySum(f, keys \ {k})
C14_TallyMatchesRows ==
    /\ DOMAIN status_counts = {StatusOf(i) : i \in 1..Len(evaluated)}
    /\ \A st \in DOMAIN status_counts :
           status_counts[st] = Cardinality({i \in 1..Len(evaluated) : StatusOf(i) = st})
    /\ TallySum(status_counts, DOMAIN status_counts) = Len(evaluated)
    /\ pc = "done" => TallySum(status_counts, DOMAIN status_counts) = Len(rows)

C14_Witness ==
    /\ pc = "done"
    /\ Len(rows) = 2
    /\ StatusOf(1) = <<"ok">>
    /\ StatusOf(2) = <<"ok">>
    /\ status_counts[<<"ok">>] = 2
    /\ DOMAIN status_counts = {<<"ok">>}

\* C17: only a failure whose exception is an openai_error_type or a ValueError
\* is followed by a wait and another call; any other exception ends the row at
\* that call, with no wait after it, as infra_error.
FailureClass ==
    [api_error |-> "OpenAIError", type_error |-> "TypeError", empty |-> "RuntimeError",
     none |-> "RuntimeError", refusal |-> "ValueError", bad_range |-> "ValueError",
     no_key |-> "ValueError", not_json |-> "ValueError"]
Retried(o) ==
    /\ o \in DOMAIN FailureClass
    /\ \/ FailureClass[o] \in {openai_error_type, "ValueError"}
       \/ openai_error_type = "Exception"
C17_OnlyListedFailuresRetried ==
    /\ pc = "sleep" => Retried(last_outcome)
    /\ (RowDone /\ calls >= 1 /\ last_outcome \in DOMAIN FailureClass
            /\ ~Retried(last_outcome)) =>
           (/\ Latest.evaluation_status.s = <<"infra_error">>
            /\ Len(waits) = calls - 1
            /\ Len(Latest.evaluation_error.s) = 2
            /\ Latest.evaluation_error.s[1] = "LLM evaluation failed: ")
    /\ (RowDone /\ calls >= 1 /\ Retried(last_outcome)) =>
           (/\ Latest.evaluation_status.s = <<"infra_error">>
            /\ calls = max_retries
            /\ Latest.evaluation_error.s[2] = "LLM evaluation failed after ")

C17_Witness ==
    /\ RowDone
    /\ openai_error_type = "OpenAIError"
    /\ max_retries = 2
    /\ calls = 1
    /\ last_outcome = "empty"
    /\ waits = <<>>
    /\ Latest.evaluation_status.s = <<"infra_error">>

\* C18 as stated: with max_retries >= 1 every row with non-empty ticket and
\* reply and a configured client gets between 1 and max_retries judge calls,
\* and the batch at most max_retries calls per such row.
UsableStarted ==
    Cardinality({i \in 1..Len(rows) :
                    i <= idx /\ ~Unusable(rows[i]) /\ (i < idx \/ pc \in {"attempt", "sleep"})})
C18_Original ==
    (client # "none" /\ max_retries >= 1) =>
        /\ (RowDone /\ ~Unusable(LatestInput)) => (calls >= 1 /\ calls <= max_retries)
        /\ total_calls <= max_retries * UsableStarted

\* C18 amended: with max_retries >= 1 and a client that has the Responses API,
\* every row with non-empty ticket and reply gets between 1 and max_retries
\* judge calls whatever happened on earlier rows: the attempt counter restarts
\* at each row, a row is given up as exhausted only after max_retries calls of
\* its own, it is ok exactly when its own last call returned a valid response,
\* and the batch makes at most max_retries calls per such row.
OkOutcomes == {"valid", "valid_long", "coerced"}
C18_PerRowBudget ==
    (client = "client" /\ max_retries >= 1) =>
        /\ (RowDone /\ ~Unusable(LatestInput)) => (calls >= 1 /\ calls <= max_retries)
        /\ pc = "attempt" => (attempt = calls + 1 /\ attempt <= max_retries)
        /\ pc = "sleep" => (attempt = calls /\ attempt < max_retries)
        /\ (RowDone /\ calls >= 1) =>
               ((Latest.evaluation_status.s = <<"ok">>) <=> (last_outcome \in OkOutcomes))
        /\ (RowDone /\ calls >= 1 /\ Len(Latest.evaluation_error.s) >= 2
                /\ Latest.evaluation_error.s[2] = "LLM evaluation failed after ")
               => calls = max_retries
        /\ total_calls <= max_retries * UsableStarted
        /\ total_calls >= UsableStarted - (IF pc \in {"attempt"} /\ calls = 0 THEN 1 ELSE 0)

C18_Witness ==
    /\ pc = "done"
    /\ client = "client"
    /\ max_retries = 2
    /\ Len(rows) = 2
    /\ total_calls = 3
    /\ calls = 1
    /\ StatusOf(1) = <<"infra_error">>
    /\ StatusOf(2) = <<"ok">>

C20_Terminates ==
    <>(/\ pc = "done"
       /\ Len(evaluated) = Len(rows)
       /\ \A i \in 1..Len(rows) : StatusOf(i) \in Statuses)

C20_Witness ==
    /\ pc = "done"
    /\ client = "client"
    /\ max_retries = 2
    /\ Len(rows) = 2
    /\ total_calls = 4
    /\ calls = 2
    /\ last_outcome = "api_error"
    /\ StatusOf(1) = <<"infra_error">>

\* C16: extract_output_text returns the trimmed output_text field when that is
\* a non-blank string; otherwise the trimmed concatenation, in segment order,
\* of the texts of the output_text segments and the refusals of the refusal
\* segments; and the empty text for an absent response or one with no such
\* segment.
NonBlank(a) == a.kind = "str" /\ \E i \in 1..Len(a.s) : a.s[i] # " "
Trimmed(full, out) ==
    IF \A i \in 1..Len(full) : full[i] = " "
    THEN out = <<>>
    ELSE \E a \in 1..Len(full) : \E b \in a..Len(full) :
            /\ out = SubSeq(full, a, b)
            /\ full[a] # " " /\ full[b] # " "
            /\ \A i \in 1..Len(full) : (i < a \/ i > b) => full[i] = " "
RECURSIVE SegmentsUpTo(_, _)
SegmentsUpTo(output, n) ==
    IF n = 0 THEN <<>> ELSE SegmentsUpTo(output, n - 1) \o output[n]
Contributes(seg) ==
    \/ seg.type = "output_text" /\ seg.attr.kind \in {"str", "dict"}
    \/ seg.type = "refusal" /\ seg.attr.kind = "str"
RECURSIVE JoinUpTo(_, _)
JoinUpTo(segs, n) ==
    IF n = 0 THEN <<>> ELSE JoinUpTo(segs, n - 1) \o segs[n].attr.s
C16_ExtractOutputText ==
    pc = "extracted" =>
        IF response.none THEN extracted = <<>>
        ELSE IF NonBlank(response.output_text)
        THEN Trimmed(response.output_text.s, extracted) /\ extracted # <<>>
        ELSE LET segs == SelectSeq(SegmentsUpTo(response.output, Len(response.output)),
                                   Contributes)
             IN  /\ Trimmed(JoinUpTo(segs, Len(segs)), extracted)
                 /\ segs = <<>> => extracted = <<>>

C16_Witness ==
    /\ pc = "extracted"
    /\ ~response.none
    /\ response.output_text = AStr(<<" ">>)
    /\ Len(response.output) = 2
    /\ response.output[1] = <<Seg("refusal", AStr(<<" ", "r">>))>>
    /\ response.output[2] = <<Seg("output_text", AStr(<<"a", " ">>))>>
    /\ extracted = <<"r", "a">>

\* C11: in a run of evaluate_tickets only a file-level problem (missing input
\* file, missing required column, no data rows) aborts the batch, and it does
\* so before any row is evaluated, with no judge call and no output file;
\* every other run ends with the output file written, one row per input row,
\* each with a row-level status.
FileProblem(file) ==
    \/ ~file.exists
    \/ file.data = <<>>
    \/ ~({"ticket", "reply"} \subseteq file.header)
C11_OnlyFileProblemsAbort ==
    /\ pc = "aborted" =>
           (/\ FileProblem(run.file)
            /\ total_calls = 0
            /\ evaluated = <<>>
            /\ ~output_file.exists)
    /\ (FileProblem(run.file) /\ pc # "prepare") => pc = "aborted"
    /\ pc = "written" =>
           (/\ output_file.exists
            /\ Len(output_file.data) = Len(rows)
            /\ \A i \in 1..Len(rows) : StatusOf(i) \in Statuses)

\* C15: write_rows emits the six base columns always and in this order,
\* followed by evaluation_status and evaluation_error exactly when metadata is
\* requested; each output row holds the row's value for each of these columns
\* and any other field of the row is dropped.
C15_OutputColumns ==
    pc = "written" =>
        LET base == <<"ticket", "reply", "content_score", "content_explanation",
                      "format_score", "format_explanation">>
            meta == <<"evaluation_status", "evaluation_error">>
            h == output_file.header
        IN  /\ SubSeq(h, 1, 6) = base
            /\ run.include_metadata_columns => h = base \o meta
            /\ ~run.include_metadata_columns => h = base
            /\ Len(output_file.data) = Len(evaluated)
            /\ \A i \in 1..Len(evaluated) :
                   /\ DOMAIN output_file.data[i] = {h[j] : j \in 1..Len(h)}
                   /\ \A k \in DOMAIN output_file.data[i] :
                          output_file.data[i][k] =
                              (IF evaluated[i][k].none THEN <<>> ELSE evaluated[i][k].s)

C15_Witness ==
    /\ pc = "written"
    /\ ~run.include_metadata_columns
    /\ Len(evaluated) = 2
    /\ "id" \in DOMAIN evaluated[1]
    /\ "evaluation_status" \in DOMAIN evaluated[1]
    /\ evaluated[2].reply.none
    /\ "id" \notin DOMAIN output_file.data[1]
    /\ "evaluation_status" \notin DOMAIN output_file.data[1]
    /\ output_file.data[1].content_score = <<"4">>
    /\ output_file.data[2].reply = <<>>

====
